---- MODULE Spec2Model ----
(***************************************************************************)
(* Model of the SillyTavern MCP server plugin: the McpClient runtime       *)
(* (McpClient.ts, current revision) and the control plane of mcp.ts       *)
(* (settings file, registry mcpClients, REST handlers).                    *)
(*                                                                         *)
(* A Client object is a record; every method of McpClient is a pure        *)
(* operator from a Client record to the Client record after the            *)
(* synchronous part of the method (up to its next await).  The             *)
(* continuation that a promise settlement schedules runs in the same       *)
(* microtask checkpoint as the settlement, so it is part of the operator   *)
(* that settles the promise.                                               *)
(***************************************************************************)
EXTENDS Integers, Sequences, FiniteSets, TLC

\* ---------------------------------------------------------------- bounds
MaxRequestId == 5      \* requests one Client may allocate in a run
MaxHandshakes == 3     \* connect() handshakes one Client may run
MaxCalls == 2          \* listTools/callTool calls an application makes on one Client
MaxClients == 2        \* Client objects constructed in a run
MaxDepth == 3          \* nesting depth of the JSON values given to findContentLevel
MaxRpcId == 4          \* requests one McpJsonRpcClient may allocate in a run
MaxReqs == 2           \* HTTP requests the control plane receives in a run
MaxChunks == 2         \* write calls that put one serialised document into a file
MaxLines == 3          \* lines a child process writes to its stdout in a run

Ids == 1..MaxRequestId
Handshakes == 1..MaxHandshakes
Clients == 1..MaxClients

\* ------------------------------------------------------- McpClient types
Transports == {"stdio", "sse", "streamableHttp"}
RequestMethods == {"initialize", "tools/list", "tools/call"}
NotificationInitialized == "notifications/initialized"

\* ErrorCode (numeric, as in the enum)
ConnectionClosed == -32000
RequestTimeout == -32001
UnsupportedProtocolVersion == -32002
ParseError == -32700
InvalidRequest == -32600
MethodNotFound == -32601
InvalidParams == -32602
InternalError == -32603

\* Settlement state of a promise: st is none (not created), pending, resolved
\* or rejected; code is the McpError code of a rejection (0 for an error that
\* is not an McpError); value is the tools array a result carries.
NoValue == << >>
NoPromise == [st |-> "none", code |-> 0, value |-> NoValue]
Pending == [st |-> "pending", code |-> 0, value |-> NoValue]
Resolved(v) == [st |-> "resolved", code |-> 0, value |-> v]
Rejected(code) == [st |-> "rejected", code |-> code, value |-> NoValue]
Settled(o) == o.st \in {"resolved", "rejected"}

\* One handshake started by connect(): where its async body stands (pos), the
\* promise stored in initializePromise, and the id of its initialize request.
NoHandshake == [pos |-> "unused", promise |-> NoPromise, initId |-> 0]

\* The protocol version the Client offers, and the result of an initialize
\* response ("" as protocolVersion: the field is absent).
PROTOCOL_VERSION == "2025-06-18"
InitializeResult(version, capabilities) ==
  [protocolVersion |-> version, capabilities |-> capabilities]

\* result.protocolVersion || PROTOCOL_VERSION
versionOr(result) ==
  IF result.protocolVersion = "" THEN PROTOCOL_VERSION ELSE result.protocolVersion

\* The fields of a freshly constructed McpClient.
NewClient(t, name) ==
  [ transport         |-> t,
    clientInfo        |-> name,        \* clientInfo.name: the server name

    requestId         |-> 0,
    pendingRequests   |-> {},          \* set of [id, method]
    isConnected       |-> FALSE,
    capabilities      |-> "undefined",
    initializePromise |-> 0,           \* 0 = undefined, h = promise of handshake h
    sessionId         |-> 0,           \* 0 = undefined
    proc              |-> "none",      \* none | running | failed | exited | closed
    killed            |-> FALSE,       \* proc.killed
    eventSource       |-> FALSE,
    hs                |-> [h \in Handshakes |-> NoHandshake],
    nhs               |-> 0,           \* handshakes started so far
    wire              |-> << >>,       \* frames put on the transport, in order
    waiter            |-> [i \in Ids |-> NoPromise], \* promise of sendRequest
    exec              |-> [i \in Ids |-> "none"],   \* async body of sendRequest
    parent            |-> [i \in Ids |-> 0],        \* retry of which request
    awaits            |-> [i \in Ids |-> 0],        \* handshake a request awaits
    thrown            |-> 0,           \* code of the error the last call threw (0: none)
    closing           |-> FALSE,       \* close() killed the child and waits for 'close'
    closed            |-> FALSE,       \* a close() call did its work and returned
    negotiatedProtocolVersion |-> PROTOCOL_VERSION,
    \* the result the server at the other end gives to initialize
    peer              |-> InitializeResult(PROTOCOL_VERSION, "server") ]

\* A slot that was never constructed.
Unborn == NewClient("unborn", "")

Frame(id, method) == [id |-> id, method |-> method]
PendingIds(s) == {p.id : p \in s.pendingRequests}
PendingMethod(s, id) == (CHOOSE p \in s.pendingRequests : p.id = id).method

\* ------------------------------------------------- McpClient: promise plumbing
RECURSIVE settleWaiter(_, _, _)
RECURSIVE settleConnect(_, _, _)
RECURSIVE resumeReconnects(_, _, _, _)

\* sendRequest: the guard in front of the promise (a throw before anything is
\* allocated or written).
\* A guard that only the stdio branch has.
sendRequestThrowsOnStdioOnly(s, method) ==
  /\ s.transport = "stdio"
  /\ method # "initialize" /\ (~s.isConnected \/ s.proc = "none")

sendRequestThrows(s, method) ==
  CASE s.transport = "stdio" ->
         method # "initialize" /\ (~s.isConnected \/ s.proc = "none")
    [] s.transport = "sse" -> method # "initialize" /\ ~s.isConnected
    [] OTHER -> ~s.isConnected

\* A sendRequest whose frame goes out ahead of the frames already handed to
\* the transport.
sendRequestJumpsQueue(s, method, par) ==
  LET id == s.requestId + 1 IN
  [s EXCEPT !.requestId = id,
            !.pendingRequests = @ \cup {Frame(id, method)},
            !.waiter[id] = Pending,
            !.parent[id] = par,
            !.exec[id] = IF s.transport = "stdio" THEN "done" ELSE "fetch",
            !.wire = <<Frame(id, method)>> \o @]

\* sendRequest past its guard: allocate ++requestId, register the waiter in
\* pendingRequests and hand the frame to the transport (stdin.write / fetch).
\* par is the request whose 404 retry this is (0: a call of the application).
sendRequest(s, method, par) ==
  LET id == s.requestId + 1 IN
  [s EXCEPT !.requestId = id,
            !.pendingRequests = @ \cup {Frame(id, method)},
            !.waiter[id] = Pending,
            !.parent[id] = par,
            !.exec[id] = IF s.transport = "stdio" THEN "done" ELSE "fetch",
            !.wire = Append(@, Frame(id, method))]

\* listTools() and callTool() with arguments that match the schema, called
\* by the application: the guard of sendRequest throws ConnectionClosed, or
\* the request is sent.
request(s, method) ==
  IF sendRequestThrows(s, method) THEN [s EXCEPT !.thrown = ConnectionClosed]
  ELSE [sendRequest(s, method, 0) EXCEPT !.thrown = 0]

\* sendNotification past its guard: one frame without id (id 0) on the wire.
sendNotification(s, method) ==
  [s EXCEPT !.wire = Append(@, Frame(0, method))]

\* A handshake that turns connected and resolves without the notification.
handshakeContinueSilent(s, h, o) ==
  IF o.st = "resolved"
  THEN LET s0 == [s EXCEPT !.capabilities = s.peer.capabilities,
                                !.isConnected = TRUE]
           s1 == IF s.transport = "stdio" THEN s0
                 ELSE [s0 EXCEPT !.negotiatedProtocolVersion = versionOr(s.peer)]
       IN IF s.transport = "stdio"
          THEN settleConnect([s1 EXCEPT !.hs[h].pos = "done"], h, Resolved(NoValue))
          ELSE [s1 EXCEPT !.hs[h].pos = "notify"]
  ELSE settleConnect([s EXCEPT !.hs[h].pos = "done"], h,
                     IF s.transport = "stdio" THEN o ELSE Rejected(ParseError))

\* The async body of a handshake after its initialize request settled with
\* outcome o (stdio: the setTimeout callback; sse: the endpoint listener).
\* The result of a resolved initialize request is the peer's; only the sse
\* branch assigns negotiatedProtocolVersion.
handshakeContinue(s, h, o) ==
  IF o.st = "resolved"
  THEN LET s0 == [s EXCEPT !.capabilities = s.peer.capabilities,
                                !.isConnected = TRUE]
           s1 == sendNotification(
                   IF s.transport = "stdio" THEN s0
                   ELSE [s0 EXCEPT !.negotiatedProtocolVersion = versionOr(s.peer)],
                   NotificationInitialized)
       IN IF s.transport = "stdio"
          THEN settleConnect([s1 EXCEPT !.hs[h].pos = "done"], h, Resolved(NoValue))
          ELSE [s1 EXCEPT !.hs[h].pos = "notify"]
  ELSE settleConnect([s EXCEPT !.hs[h].pos = "done"], h,
                     IF s.transport = "stdio" THEN o ELSE Rejected(ParseError))

\* resolve/reject of a sendRequest promise.  Settling is idempotent; a retry
\* that settles also settles the request that awaits it, and an initialize
\* request that settles resumes the handshake that awaits it.
settleWaiter(s, id, o) ==
  IF s.waiter[id].st # "pending" THEN s
  ELSE
    LET s1 == [s EXCEPT !.waiter[id] = o]
        p == s.parent[id]
        s2 == IF p # 0
              THEN settleWaiter([s1 EXCEPT !.exec[p] = "done"], p,
                                IF o.st = "resolved" THEN o
                                ELSE Rejected(ConnectionClosed))
              ELSE s1
        hset == {h \in Handshakes : /\ s2.transport # "streamableHttp"
                                    /\ s2.hs[h].pos = "initialize"
                                    /\ s2.hs[h].initId = id}
    IN IF hset = {} THEN s2
       ELSE handshakeContinue(s2, CHOOSE h \in hset : TRUE, o)

\* The requests whose 404 branch awaits connect() of handshake h, resumed in
\* the order they started to wait: on success each retries with a new
\* sendRequest, on failure each is rejected with ConnectionClosed.
resumeReconnects(s, h, o, ids) ==
  IF ids = {} THEN s
  ELSE
    LET id == CHOOSE i \in ids : \A j \in ids : i <= j
        m == (CHOOSE f \in {s.wire[k] : k \in 1..Len(s.wire)} : f.id = id).method
        s1 == IF o.st = "resolved" /\ ~sendRequestThrows(s, m)
              THEN [sendRequest(s, m, id) EXCEPT !.exec[id] = "retry"]
              ELSE settleWaiter([s EXCEPT !.exec[id] = "done"], id,
                                Rejected(ConnectionClosed))
    IN resumeReconnects(s1, h, o, ids \ {id})

\* resolve/reject of the promise connect() returned for handshake h.
settleConnect(s, h, o) ==
  IF s.hs[h].promise.st # "pending" THEN s
  ELSE resumeReconnects([s EXCEPT !.hs[h].promise = o], h, o,
                        {i \in Ids : s.exec[i] = "reconnect" /\ s.awaits[i] = h})

\* Ids a settlement of handshake h needs for the retries waiting on it.
RetriesWaiting(s, h) ==
  Cardinality({i \in Ids : s.exec[i] = "reconnect" /\ s.awaits[i] = h})

\* ------------------------------------------------------ McpClient: methods
\* connect(): returns at once when connected or when a handshake promise is
\* stored; otherwise starts handshake nhs+1 (its synchronous part).
connectStarts(s) == ~s.isConnected /\ s.initializePromise = 0

\* connect() whose streamable-HTTP initialize takes the next id without
\* storing it in requestId (`id: this.requestId + 1`).
connectIdNotStored(s) ==
  IF ~connectStarts(s) THEN s
  ELSE
    LET h == s.nhs + 1
        s1 == [s EXCEPT !.nhs = h, !.initializePromise = h] IN
    CASE s.transport = "stdio" ->
           [s1 EXCEPT !.proc = "running", !.killed = FALSE,
                      !.hs[h] = [pos |-> "timer", promise |-> Pending, initId |-> 0]]
      [] s.transport = "sse" ->
           [s1 EXCEPT !.eventSource = TRUE,
                      !.hs[h] = [pos |-> "endpoint", promise |-> Pending, initId |-> 0]]
      [] OTHER ->
           [s1 EXCEPT !.wire = Append(@, Frame(s.requestId + 1, "initialize")),
                      !.hs[h] = [pos |-> "initialize", promise |-> Pending,
                                 initId |-> s.requestId + 1]]

connect(s) ==
  IF ~connectStarts(s) THEN s
  ELSE
    LET h == s.nhs + 1
        s1 == [s EXCEPT !.nhs = h, !.initializePromise = h] IN
    CASE s.transport = "stdio" ->
           \* spawn, install the stdout/error/close/exit handlers, arm the timer
           [s1 EXCEPT !.proc = "running", !.killed = FALSE,
                      !.hs[h] = [pos |-> "timer", promise |-> Pending, initId |-> 0]]
      [] s.transport = "sse" ->
           \* new EventSource, wait for the endpoint event
           [s1 EXCEPT !.eventSource = TRUE,
                      !.hs[h] = [pos |-> "endpoint", promise |-> Pending, initId |-> 0]]
      [] OTHER ->
           \* POST initialize with id ++requestId (no pendingRequests entry)
           [s1 EXCEPT !.requestId = s.requestId + 1,
                      !.wire = Append(@, Frame(s.requestId + 1, "initialize")),
                      !.hs[h] = [pos |-> "initialize", promise |-> Pending,
                                 initId |-> s.requestId + 1]]

\* The promise connect() hands to its caller: 0 when it returns at once.
connectAwaits(s) ==
  IF s.isConnected THEN 0
  ELSE IF s.initializePromise # 0 THEN s.initializePromise
  ELSE s.nhs + 1

\* stdio: the setTimeout(…, 100) callback of handshake h sends initialize.
timerFire(s, h) ==
  LET s1 == sendRequest(s, "initialize", 0) IN
  [s1 EXCEPT !.hs[h].pos = "initialize", !.hs[h].initId = s1.requestId]

\* stdio: proc.on('error') (spawn failure: no 'exit' follows, only 'close').
procError(s, h) ==
  settleConnect([s EXCEPT !.isConnected = FALSE, !.initializePromise = 0,
                          !.proc = "failed"],
                h, Rejected(ConnectionClosed))

\* stdio: proc.on('exit').
procExit(s, h) ==
  LET s1 == [s EXCEPT !.isConnected = FALSE, !.initializePromise = 0,
                      !.proc = "exited"]
  IN IF ~s.killed THEN settleConnect(s1, h, Rejected(ConnectionClosed)) ELSE s1

\* stdio: proc.on('close'), both the handler of connect() and the handlers
\* close() added; the close() promises resolve when proc is "closed".
procClose(s) ==
  [s EXCEPT !.isConnected = FALSE, !.initializePromise = 0,
            !.proc = "closed",
            !.closed = @ \/ s.closing, !.closing = FALSE]

\* close(): TRUE when the returned promise is already resolved (otherwise it
\* resolves in the 'close' handler it adds, after proc.kill()).
closeReturnsAtOnce(s) == ~s.isConnected \/ s.transport # "stdio"

close(s) ==
  IF ~s.isConnected THEN s
  ELSE IF s.transport = "stdio"
  THEN [s EXCEPT !.killed = @ \/ s.proc = "running", !.closing = TRUE]
  ELSE [s EXCEPT !.eventSource = FALSE, !.isConnected = FALSE,
                 !.initializePromise = 0, !.closed = TRUE]

\* An inbound JSON-RPC message: kind is notification (no id), result, error,
\* or toolError (a result whose unwrapped node has isError: true).
Message(id, kind, value, code) ==
  [id |-> id, kind |-> kind, value |-> value, code |-> code]

\* A dispatcher that gives each response to the oldest pending request.
handleMessageOldestFirst(s, msg) ==
  IF msg.kind = "notification" THEN s
  ELSE IF msg.id \notin PendingIds(s) THEN s
  ELSE
    LET id == CHOOSE i \in PendingIds(s) : \A j \in PendingIds(s) : i <= j
        m == PendingMethod(s, id)
        s1 == [s EXCEPT !.pendingRequests = @ \ {Frame(id, m)}]
    IN IF msg.kind = "error"
       THEN settleWaiter(s1, id, Rejected(msg.code))
       ELSE settleWaiter(s1, id, Resolved(msg.value))

\* A dispatcher that gives a response with an unknown id to the oldest pending
\* request instead of dropping it.
handleMessageAdoptsUnknown(s, msg) ==
  IF msg.kind = "notification" THEN s
  ELSE IF PendingIds(s) = {} THEN s
  ELSE
    LET id == IF msg.id \in PendingIds(s) THEN msg.id
              ELSE CHOOSE i \in PendingIds(s) : \A j \in PendingIds(s) : i <= j
        m == PendingMethod(s, id)
        s1 == [s EXCEPT !.pendingRequests = @ \ {Frame(id, m)}]
    IN IF msg.kind = "error"
       THEN settleWaiter(s1, id, Rejected(msg.code))
       ELSE settleWaiter(s1, id, Resolved(msg.value))

\* handleMessage: a notification (no id) and a response whose id is not in
\* pendingRequests are logged and dropped; otherwise the entry is deleted and
\* its waiter resolved or rejected.
handleMessage(s, msg) ==
  IF msg.kind = "notification" THEN s
  ELSE IF msg.id \notin PendingIds(s) THEN s
  ELSE
    LET m == PendingMethod(s, msg.id)
        s1 == [s EXCEPT !.pendingRequests = @ \ {Frame(msg.id, m)}]
    IN IF msg.kind \in {"result", "toolError"} /\ m = "tools/call"
       THEN IF msg.kind = "toolError"
            THEN settleWaiter(s1, msg.id, Rejected(InternalError))
            ELSE settleWaiter(s1, msg.id, Resolved(msg.value))
       ELSE IF msg.kind = "error"
            THEN settleWaiter(s1, msg.id, Rejected(msg.code))
            ELSE settleWaiter(s1, msg.id, Resolved(msg.value))

\* --------------------------------------- McpClient: HTTP and SSE continuations
RECURSIVE handleMessages(_, _)
\* The data: lines of one event-stream body, dispatched in order.
handleMessages(s, msgs) ==
  IF msgs = << >> THEN s
  ELSE handleMessages(handleMessage(s, Head(msgs)), Tail(msgs))

\* fetch of request id threw: streamableHttp rejects with ConnectionClosed
\* ('Network error'), sse rejects with the error itself.
fetchFailed(s, id) ==
  settleWaiter([s EXCEPT !.exec[id] = "done"], id,
               IF s.transport = "sse" THEN Rejected(0)
               ELSE Rejected(ConnectionClosed))

\* sse: the POST of request id returned; only a status that is not ok settles.
ssePostDone(s, id, ok) ==
  IF ok THEN [s EXCEPT !.exec[id] = "done"]
  ELSE settleWaiter([s EXCEPT !.exec[id] = "done"], id, Rejected(ConnectionClosed))

\* streamableHttp: 404 while a session id is held: clear the session,
\* connect() again and wait for it before retrying.
sessionExpired(s, id) ==
  LET s1 == connect([s EXCEPT !.sessionId = 0, !.isConnected = FALSE,
                              !.initializePromise = 0])
  IN [s1 EXCEPT !.exec[id] = "reconnect", !.awaits[id] = s1.initializePromise]

\* streamableHttp: the POST of request id returned with a status, a
\* content type and the messages of its body.
httpResponse(s, id, status, ctype, msgs) ==
  IF status = 404 /\ s.sessionId # 0 THEN sessionExpired(s, id)
  ELSE
    LET s1 == [s EXCEPT !.exec[id] = "done"] IN
    CASE ctype = "json" -> handleMessages(s1, msgs)
      [] ctype = "event-stream" ->
           settleWaiter(handleMessages(s1, msgs), id, Resolved(NoValue))
      [] OTHER -> settleWaiter(s1, id, Rejected(ConnectionClosed))

\* streamableHttp handshake h: the initialize POST threw.
initFetchFailed(s, h) ==
  settleConnect([s EXCEPT !.hs[h].pos = "done"], h, Rejected(0))

\* streamableHttp handshake h: the initialize POST returned.  session is the
\* mcp-session-id header (0: absent), parses tells whether the body is JSON
\* or an SSE data line holding JSON.
initHttpResponse(s, h, ok, session, parses) ==
  IF ~ok
  THEN settleConnect([s EXCEPT !.hs[h].pos = "done"], h, Rejected(ConnectionClosed))
  ELSE
    LET s1 == IF session # 0 THEN [s EXCEPT !.sessionId = session] ELSE s IN
    IF ~parses
    THEN settleConnect([s1 EXCEPT !.hs[h].pos = "done"], h, Rejected(ParseError))
    ELSE sendNotification([s1 EXCEPT !.capabilities = s.peer.capabilities,
                                     !.isConnected = TRUE,
                                     !.negotiatedProtocolVersion = versionOr(s.peer),
                                     !.hs[h].pos = "notify"],
                          NotificationInitialized)

\* sse/streamableHttp handshake h: the POST of notifications/initialized
\* returned (resolve) or threw (the catch around the handshake rejects).
notifyDone(s, h, ok) ==
  settleConnect([s EXCEPT !.hs[h].pos = "done"], h,
                IF ok THEN Resolved(NoValue)
                ELSE IF s.transport = "sse" THEN Rejected(ParseError)
                ELSE Rejected(0))

\* sse handshake h: the endpoint event; session is its sessionId (0: none).
endpointEvent(s, h, session) ==
  IF session = 0
  THEN settleConnect([s EXCEPT !.hs[h].pos = "done"], h, Rejected(InvalidRequest))
  ELSE LET s1 == sendRequest([s EXCEPT !.sessionId = session], "initialize", 0)
       IN [s1 EXCEPT !.hs[h].pos = "initialize", !.hs[h].initId = s1.requestId]

\* ------------------------------------------------------------ mcp.ts: settings
Names == {"a"}
Tools == {"echo", "add"}
ToolLists == {<< >>, <<"echo">>}
ServerErrorCodes == {MethodNotFound}
Envs == {"", "SECRET", "OTHER"}
StdioConfig ==
  [type |-> "stdio", command |-> "node", args |-> << >>, env |-> "SECRET"]
\* The config objects a POST /servers body may carry.
PostedConfigs ==
  { [type |-> "stdio", command |-> "node", args |-> << >>, env |-> ""],
    [type |-> "sse",   command |-> "",     args |-> << >>, env |-> ""] }
NoMap == [n \in {} |-> {}]
MigratedKeys == {"disabledTools", "disabledServers", "cachedTools"}
\* A top-level key the plugin does not know, and the value a file gives it.
UnknownKey == "theme"

\* The settings document (McpServerDictionary).  keys holds the top-level
\* keys present in the file; the field of an absent key holds the empty value.
\* other is the value of the unknown key ("" when the key is absent).
Doc(keys, servers, disabledServers, disabledTools, cachedTools) ==
  [ keys            |-> keys,
    mcpServers      |-> servers,          \* name -> McpServerEntry
    disabledServers |-> disabledServers,  \* array of names, as a set
    disabledTools   |-> disabledTools,    \* name -> set of tool names
    cachedTools     |-> cachedTools,      \* name -> tools array
    other           |-> "" ]

\* The default document readMcpSettings writes when there is no file.
DefaultSettings ==
  Doc(MigratedKeys \cup {"mcpServers"}, NoMap, {}, NoMap, NoMap)

\* readMcpSettings: the parsed file with the missing keys filled in.
readMcpSettings(f) == [f EXCEPT !.keys = @ \cup MigratedKeys]

\* writeMcpSettings: the file now holds the document.
writeMcpSettings(G, settings) == [G EXCEPT !.file = settings]

\* `delete obj[name]` and `obj[name] = v` on a JavaScript object.
Without(f, name) == [n \in DOMAIN f \ {name} |-> f[n]]
With(f, name, v) == [n \in DOMAIN f \cup {name} |-> IF n = name THEN v ELSE f[n]]

\* The disabledTools[name] || [] and cachedTools[name] of a settings document.
disabledToolsOf(settings, name) ==
  IF name \in DOMAIN settings.disabledTools THEN settings.disabledTools[name] ELSE {}

cachedToolsOf(settings, name) ==
  IF name \in DOMAIN settings.cachedTools
  THEN {settings.cachedTools[name][i] : i \in 1..Len(settings.cachedTools[name])}
  ELSE {}

\* ----------------------------------------- the 'data' handlers of stdout
\* The text of a JSON-RPC message is "{", its body, "}": no proper part of it
\* is a JSON object.  A child may also print a line that is not JSON.
MessageBodies == {"1", "2"}
MessageText(b) == <<"{", b, "}">>
LogLine == <<"x">>
Lines == {MessageText(b) : b \in MessageBodies} \cup {LogLine}

\* JSON.parse(line) returns an object the dispatcher can take.
isMessage(line) == \E b \in MessageBodies : line = MessageText(b)

RECURSIVE split(_)
\* text.split('\n')
split(text) ==
  IF \A k \in 1..Len(text) : text[k] # "\n" THEN <<text>>
  ELSE LET n == CHOOSE k \in 1..Len(text) :
                  text[k] = "\n" /\ \A j \in 1..(k - 1) : text[j] # "\n"
       IN <<SubSeq(text, 1, n - 1)>> \o split(SubSeq(text, n + 1, Len(text)))

\* A child's stdout: the lines the child wrote, the characters still in the
\* pipe, the buffer of the handler, the messages given to the dispatcher and
\* the number of parse failures logged.
NewStdout(reader) ==
  [ reader     |-> reader,      \* McpClient | McpJsonRpcClient
    written    |-> << >>,
    pipe       |-> << >>,
    buffer     |-> << >>,
    dispatched |-> << >>,
    errors     |-> 0 ]

RECURSIVE dispatchLines(_, _)
\* The loop over the lines: an empty line is skipped, a line that parses is
\* dispatched, any other is logged inside the catch.
dispatchLines(s, lines) ==
  IF lines = << >> THEN s
  ELSE LET line == Head(lines)
           s1 == IF line = << >> THEN s
                 ELSE IF isMessage(line)
                      THEN [s EXCEPT !.dispatched = Append(@, line[2])]
                      ELSE [s EXCEPT !.errors = @ + 1]
       IN dispatchLines(s1, Tail(lines))

\* McpClient, proc.stdout.on('data'): every piece between two newlines of
\* this event is a line.
stdoutOnData(s, data) == dispatchLines(s, split(data))

\* McpJsonRpcClient, childProcess.stdout.on('data'): the event is added to
\* the buffer, the lines that end in a newline are taken off it.
stdoutOnDataBuffered(s, data) ==
  LET parts == split(s.buffer \o data)
  IN [dispatchLines(s, SubSeq(parts, 1, Len(parts) - 1))
        EXCEPT !.buffer = parts[Len(parts)]]

\* ------------------------------------------------- mcp.ts: the file on disk
\* A file: whether it exists, the document whose serialisation it holds and
\* how many of the MaxChunks pieces of that serialisation have reached it.
Content(doc, len) == [exists |-> TRUE, doc |-> doc, len |-> len]
NoFile == [exists |-> FALSE, doc |-> DefaultSettings, len |-> 0]
Whole(doc) == Content(doc, MaxChunks)

\* The directory of mcp_settings.json: the file, the temporary file next to
\* it, the system calls the running write has still to make, the file as it
\* was when that write began, whether its rename happened, whether the
\* process crashed, and what the last reader of the file got.
NewDisk(f) ==
  [ file |-> f, temp |-> NoFile, ops |-> << >>, prior |-> f,
    renamed |-> FALSE, crashed |-> FALSE, read |-> NoFile ]

\* The write calls that put the serialisation of doc into a file.
writeChunks(to, doc) ==
  [k \in 1..MaxChunks |-> [op |-> "write", to |-> to, doc |-> doc, len |-> k]]

\* writeFileAtomicSync(filePath, data): the data goes to a temporary file,
\* which is then renamed over filePath.
writeFileAtomicSync(doc) ==
  writeChunks("temp", doc)
    \o << [op |-> "rename", to |-> "file", doc |-> doc, len |-> 0] >>

\* One system call on the directory.
syscall(d, o) ==
  CASE o.op = "write" /\ o.to = "temp" -> [d EXCEPT !.temp = Content(o.doc, o.len)]
    [] o.op = "write" /\ o.to = "file" -> [d EXCEPT !.file = Content(o.doc, o.len)]
    [] OTHER -> [d EXCEPT !.file = d.temp, !.temp = NoFile, !.renamed = TRUE]

\* A settings writer that truncates the file and writes it in place.
writeMcpSettingsInPlace(d, settings) ==
  [d EXCEPT !.ops = writeChunks("file", settings), !.prior = d.file, !.renamed = FALSE]

\* writeMcpSettings, as the system calls it makes.
writeMcpSettingsToDisk(d, settings) ==
  [d EXCEPT !.ops = writeFileAtomicSync(settings), !.prior = d.file,
            !.renamed = FALSE]

\* readMcpSettings, on the directory: the default document is written when
\* there is no file, otherwise the file is read.
readMcpSettingsFromDisk(d) ==
  IF ~d.file.exists THEN writeMcpSettingsToDisk(d, DefaultSettings)
  ELSE [d EXCEPT !.read = d.file]

\* ------------------------------------------------------------ mcp.ts: requests
Reqs == 1..MaxReqs

\* One HTTP request of the control plane: its route and parameters, where
\* its handler stands (pc), the locals that live across its awaits, and the
\* response it sent (status 0: none yet).
NoReq ==
  [ kind       |-> "none",  name      |-> "",
    toolName   |-> "",      argsValid |-> TRUE,
    posted     |-> {},                \* the array of the request body
    pc         |-> "new",
    settings   |-> DefaultSettings,   \* const settings = readMcpSettings(...)
    wasRunning |-> FALSE,             \* reloadToolCache: wasRunning
    client     |-> 0,                 \* Client whose promise is awaited
    awaitHs    |-> 0,                 \* handshake promise awaited
    awaitId    |-> 0,                 \* request id awaited
    started    |-> 0,                 \* Client this request constructed
    stopped    |-> 0,                 \* Client this request called close() on
    removed    |-> 0,                 \* Client this request deleted from the registry
    error      |-> FALSE,             \* reloadToolCache returned { error }
    tools      |-> << >>,             \* reloadToolCache returned { tools }
    servers    |-> {},                \* the items of a GET /servers response
    status     |-> 0,  code |-> 0,  body |-> << >> ]

\* response.status(status).json(...)
respond(G, r, status, code, body) ==
  [G EXCEPT !.reqs[r].status = status, !.reqs[r].code = code,
            !.reqs[r].body = body, !.reqs[r].pc = "done"]

has(G, name) == name \in DOMAIN G.mcpClients

\* startMcpServer up to its await: returns when the name is registered,
\* otherwise constructs a Client and awaits client.connect().
startMcpServer(G, r, name) ==
  IF has(G, name) THEN [G EXCEPT !.reqs[r].pc = "startReturned"]
  ELSE
    LET free == {c \in Clients : G.clients[c].transport = "unborn"} IN
    IF free = {} THEN [G EXCEPT !.fits = FALSE]
    ELSE
      LET c == CHOOSE x \in free : \A y \in free : x <= y
          s == NewClient("stdio", name) IN
      [G EXCEPT !.clients[c] = connect(s),
                !.reqs[r].client = c, !.reqs[r].started = c,
                !.reqs[r].awaitHs = connectAwaits(s),
                !.reqs[r].pc = "connect"]

\* startMcpServer after client.connect() resolved: mcpClients.set.
startMcpServerConnected(G, r) ==
  [G EXCEPT !.mcpClients = With(@, G.reqs[r].name, G.reqs[r].client)]

\* stopMcpServer up to its await of client.close().
stopMcpServer(G, r, name) ==
  IF ~has(G, name) THEN [G EXCEPT !.reqs[r].pc = "stopReturned"]
  ELSE
    LET c == G.mcpClients[name]
        G1 == [G EXCEPT !.clients[c] = close(@), !.reqs[r].stopped = c] IN
    IF closeReturnsAtOnce(G.clients[c])
    THEN [G1 EXCEPT !.mcpClients = Without(@, name),
                    !.reqs[r].removed = c,
                    !.reqs[r].pc = "stopReturned"]
    ELSE [G1 EXCEPT !.reqs[r].pc = "stopClose"]

\* stopMcpServer after client.close() resolved: mcpClients.delete(serverName).
stopMcpServerClosed(G, r) ==
  LET name == G.reqs[r].name IN
  [G EXCEPT !.mcpClients = Without(@, name),
            !.reqs[r].removed = IF has(G, name) THEN G.mcpClients[name] ELSE 0]

\* client.listTools() / client.callTool() of request r on Client c: the
\* sendRequest guard throws (pc thrown), or the request is sent and awaited.
awaitRequest(G, r, c, method, sentPc, thrownPc) ==
  IF sendRequestThrows(G.clients[c], method)
  THEN [G EXCEPT !.reqs[r].pc = thrownPc]
  ELSE IF G.clients[c].requestId >= MaxRequestId THEN [G EXCEPT !.fits = FALSE]
  ELSE [G EXCEPT !.clients[c] = sendRequest(@, method, 0),
                 !.reqs[r].client = c,
                 !.reqs[r].awaitId = G.clients[c].requestId + 1,
                 !.reqs[r].pc = sentPc]

\* router.post('/servers/:name/reload-tools') after reloadToolCache returned:
\* the destructured tools are answered with status 200.
reloadRespond(G, r) == respond(G, r, 200, 0, G.reqs[r].tools)

\* reloadToolCache after stopMcpServer returned (either path).
reloadReturn(G, r) == reloadRespond(G, r)

\* reloadToolCache from `const client = mcpClients.get(serverName)` to the
\* await of client?.listTools().
reloadListTools(G, r) ==
  LET name == G.reqs[r].name IN
  IF has(G, name)
  THEN awaitRequest(G, r, G.mcpClients[name], "tools/list", "list", "listThrew")
  ELSE [G EXCEPT !.reqs[r].pc = "listUndefined"]

\* reloadToolCache after listTools resolved with the tools array v: cache,
\* write the settings object of the handler, stop a temporary server.
reloadCacheTools(G, r, v) ==
  LET name == G.reqs[r].name
      settings == [G.reqs[r].settings EXCEPT
                     !.cachedTools = With(@, name, v)]
      G1 == writeMcpSettings([G EXCEPT !.reqs[r].settings = settings,
                                       !.reqs[r].tools = v], settings)
  IN IF ~G.reqs[r].wasRunning THEN stopMcpServer(G1, r, name)
     ELSE reloadReturn(G1, r)

\* A catch block that caches the empty tools array it is about to return.
reloadCatchCachesEmpty(G, r) ==
  LET name == G.reqs[r].name
      settings == [G.reqs[r].settings EXCEPT !.cachedTools = With(@, name, << >>)]
      G1 == writeMcpSettings([G EXCEPT !.reqs[r].error = TRUE,
                                       !.reqs[r].tools = << >>], settings) IN
  IF ~G.reqs[r].wasRunning /\ has(G, name) THEN stopMcpServer(G1, r, name)
  ELSE reloadReturn(G1, r)

\* reloadToolCache: the catch block.
reloadCatch(G, r) ==
  LET name == G.reqs[r].name
      G1 == [G EXCEPT !.reqs[r].error = TRUE, !.reqs[r].tools = << >>] IN
  IF ~G.reqs[r].wasRunning /\ has(G, name) THEN stopMcpServer(G1, r, name)
  ELSE reloadReturn(G1, r)

\* The promise request r awaits.
awaited(G, r) ==
  LET q == G.reqs[r] IN
  CASE q.pc = "connect" -> G.clients[q.client].hs[q.awaitHs].promise
    [] q.pc \in {"list", "call"} -> G.clients[q.client].waiter[q.awaitId]
    [] q.pc = "stopClose" ->
         IF G.clients[q.stopped].proc = "closed" THEN Resolved(NoValue) ELSE Pending
    [] q.pc \in {"startReturned", "stopReturned", "listUndefined"} -> Resolved(NoValue)
    [] q.pc = "listThrew" -> Rejected(ConnectionClosed)
    [] OTHER -> Pending

ready(G, r) == Settled(awaited(G, r))

\* The continuation of request r after the promise it awaits settled.
resume(G, r) ==
  LET q == G.reqs[r]
      o == awaited(G, r)
      ok == o.st = "resolved" IN
  CASE q.pc \in {"connect", "startReturned"} ->
         LET G1 == IF ok /\ q.pc = "connect" THEN startMcpServerConnected(G, r) ELSE G IN
         IF q.kind = "start"
         THEN IF ok THEN respond(G1, r, 200, 0, << >>)
              ELSE respond(G1, r, 500, 0, << >>)
         ELSE IF ok THEN reloadListTools(G1, r) ELSE reloadCatch(G1, r)
    [] q.pc \in {"list", "listThrew", "listUndefined"} ->
         IF ok THEN reloadCacheTools(G, r, o.value) ELSE reloadCatch(G, r)
    [] q.pc \in {"stopClose", "stopReturned"} ->
         LET G1 == IF q.pc = "stopClose" THEN stopMcpServerClosed(G, r) ELSE G IN
         CASE q.kind \in {"reload", "listTools"} -> reloadReturn(G1, r)
           [] q.kind = "stop" -> respond(G1, r, 200, 0, << >>)
           [] OTHER -> [G1 EXCEPT !.reqs[r].pc = "done"]
    [] q.pc = "call" ->
         IF ok THEN respond(G, r, 200, 0, o.value)
         ELSE respond(G, r, 500, IF o.code = 0 THEN InternalError ELSE o.code, << >>)
    [] OTHER -> G

RECURSIVE drain(_)
\* Run every continuation whose promise has settled, until none is left
\* (one microtask checkpoint).
drain(G) ==
  LET rs == {r \in Reqs : ready(G, r)} IN
  IF rs = {} \/ ~G.fits THEN G
  ELSE drain(resume(G, CHOOSE r \in rs : \A x \in rs : r <= x))

\* ------------------------------------------------------ mcp.ts: route handlers
\* Each handler below is the synchronous part of the route, from the arrival
\* of request r to its first await (or to its response).
known(settings, name) ==
  "mcpServers" \in settings.keys /\ name \in DOMAIN settings.mcpServers

\* A start route without the disabledServers check.
startHandlerIgnoresDisabled(G, r, name) ==
  LET settings == readMcpSettings(G.file) IN
  IF ~known(settings, name) THEN respond(G, r, 404, 0, << >>)
  ELSE startMcpServer(G, r, name)

\* router.post('/servers/:name/start')
startHandler(G, r, name) ==
  LET settings == readMcpSettings(G.file) IN
  IF ~known(settings, name) THEN respond(G, r, 404, 0, << >>)
  ELSE IF name \in settings.disabledServers THEN respond(G, r, 403, 0, << >>)
  ELSE startMcpServer(G, r, name)

\* router.post('/servers/:name/stop')
stopHandler(G, r, name) ==
  IF ~has(G, name) THEN respond(G, r, 400, 0, << >>)
  ELSE stopMcpServer(G, r, name)

\* reloadToolCache up to its first await.
reloadToolCache(G, r, name) ==
  LET G1 == [G EXCEPT !.reqs[r].wasRunning = has(G, name)] IN
  IF ~has(G, name) THEN startMcpServer(G1, r, name)
  ELSE reloadListTools(G1, r)

\* router.post('/servers/:name/reload-tools')
reloadHandler(G, r, name) ==
  LET settings == readMcpSettings(G.file) IN
  IF ~known(settings, name) THEN respond(G, r, 404, 0, << >>)
  ELSE reloadToolCache([G EXCEPT !.reqs[r].settings = settings], r, name)

\* router.get('/servers/:name/list-tools'): the cached tools when there are
\* any, otherwise the tools reloadToolCache returns.
listToolsHandler(G, r, name) ==
  LET settings == readMcpSettings(G.file) IN
  IF ~known(settings, name) THEN respond(G, r, 404, 0, << >>)
  ELSE IF cachedToolsOf(settings, name) # {}
  THEN respond(G, r, 200, 0, settings.cachedTools[name])
  ELSE reloadToolCache([G EXCEPT !.reqs[r].settings = settings], r, name)

\* router.post('/servers/disabled')
disabledServersHandler(G, r, isArray, disabledServers) ==
  IF ~isArray THEN respond(G, r, 400, 0, << >>)
  ELSE
    LET settings == readMcpSettings(G.file) IN
    respond(writeMcpSettings(G, [settings EXCEPT !.disabledServers = disabledServers]),
            r, 200, 0, << >>)

\* router.post('/servers/:name/disabled-tools')
disabledToolsHandler(G, r, name, isArray, disabledTools) ==
  IF ~isArray THEN respond(G, r, 400, 0, << >>)
  ELSE
    LET settings == readMcpSettings(G.file) IN
    IF ~known(settings, name) THEN respond(G, r, 404, 0, << >>)
    ELSE respond(writeMcpSettings(G, [settings EXCEPT
                                        !.disabledTools = With(@, name, disabledTools)]),
                 r, 200, 0, << >>)

\* router.delete('/servers/:name'): stopMcpServer is called and not awaited,
\* the settings are rewritten and the response is sent in the same turn.
deleteHandler(G, r, name) ==
  LET G1 == IF has(G, name) THEN stopMcpServer(G, r, name)
            ELSE [G EXCEPT !.reqs[r].pc = "done"]
      settings == readMcpSettings(G1.file)
      G2 == IF known(settings, name)
            THEN writeMcpSettings(G1,
                   [settings EXCEPT !.mcpServers = Without(@, name),
                                    !.disabledTools = Without(@, name),
                                    !.cachedTools = Without(@, name)])
            ELSE G1
  IN [respond(G2, r, 200, 0, << >>) EXCEPT !.reqs[r].pc = G1.reqs[r].pc]

\* response.json(...) at the end of a handler: once a response has been sent
\* the call throws (headers already sent) and the client keeps the first one.
respondOnce(G, r, status, code, body) ==
  IF G.reqs[r].status # 0 THEN [G EXCEPT !.reqs[r].pc = "done"]
  ELSE respond(G, r, status, code, body)

\* A POST /servers route whose last response.json replaces the one sent.
postServersLastResponseWins(G, r, name, config) ==
  IF config.type # "stdio" \/ config.command = "" THEN respond(G, r, 400, 0, << >>)
  ELSE
    LET settings == readMcpSettings(G.file)
        G1 == IF known(settings, name) THEN respond(G, r, 409, 0, << >>) ELSE G
        G2 == writeMcpSettings(G1,
                [settings EXCEPT !.keys = @ \cup {"mcpServers"},
                                 !.mcpServers = With(@, name, config)])
    IN respond(G2, r, 200, 0, << >>)

\* router.post('/servers'): the 409 branch has no return, so the entry is
\* overwritten and written after the 409 was sent.
postServersHandler(G, r, name, config) ==
  IF config.type # "stdio" \/ config.command = "" THEN respond(G, r, 400, 0, << >>)
  ELSE
    LET settings == readMcpSettings(G.file)
        G1 == IF known(settings, name) THEN respond(G, r, 409, 0, << >>) ELSE G
        G2 == writeMcpSettings(G1,
                [settings EXCEPT !.keys = @ \cup {"mcpServers"},
                                 !.mcpServers = With(@, name, config)])
    IN respondOnce(G2, r, 200, 0, << >>)

\* The fields every item of a GET /servers response has besides config.
serverItem(G, settings, name, config) ==
  [ name          |-> name,
    isRunning     |-> has(G, name),
    config        |-> config,
    capabilities  |-> IF has(G, name)
                      THEN G.clients[G.mcpClients[name]].capabilities
                      ELSE "undefined",
    disabledTools |-> disabledToolsOf(settings, name),
    enabled       |-> name \notin settings.disabledServers,
    cachedTools   |-> IF name \in DOMAIN settings.cachedTools
                      THEN settings.cachedTools[name] ELSE << >> ]

\* A GET /servers route that sends the whole entry as config.
getServersSendsEntry(G, r) ==
  LET settings == readMcpSettings(G.file) IN
  [respond(G, r, 200, 0, << >>) EXCEPT !.reqs[r].servers =
     {serverItem(G, settings, name, settings.mcpServers[name]) :
        name \in DOMAIN settings.mcpServers}]

\* router.get('/servers'): one item per entry of mcpServers, its config
\* reduced to command and args.
getServersHandler(G, r) ==
  LET settings == readMcpSettings(G.file) IN
  [respond(G, r, 200, 0, << >>) EXCEPT !.reqs[r].servers =
     {serverItem(G, settings, name,
                 [command |-> settings.mcpServers[name].command,
                  args    |-> settings.mcpServers[name].args]) :
        name \in DOMAIN settings.mcpServers}]

\* The settings document with the env of every entry replaced by e.
withEnv(settings, e) ==
  [settings EXCEPT !.mcpServers = [n \in DOMAIN @ |-> [@[n] EXCEPT !.env = e]]]

\* client.callTool(params, schema): the jsonschema validator throws its own
\* ValidationError when the arguments do not match; otherwise sendRequest.
callTool(G, r, c, argsValid) ==
  IF ~argsValid THEN [G EXCEPT !.reqs[r].pc = "validatorThrew"]
  ELSE awaitRequest(G, r, c, "tools/call", "call", "callThrew")

\* client.callTool and the try/catch around it in the call-tool route.
callToolAnswer(G, r, name, argsValid) ==
  LET G1 == callTool(G, r, G.mcpClients[name], argsValid) IN
  CASE G1.reqs[r].pc = "validatorThrew" ->
         \* not an McpError: code: ErrorCode.InternalError
         respond(G1, r, 500, InternalError, << >>)
    [] G1.reqs[r].pc = "callThrew" ->
         respond(G1, r, 500, ConnectionClosed, << >>)
    [] OTHER -> G1

\* A call-tool route without the disabledTools check.
callToolHandlerIgnoresDisabled(G, r, name, toolName, argsValid) ==
  IF ~has(G, name) THEN respond(G, r, 400, 0, << >>)
  ELSE
    LET settings == readMcpSettings(G.file)
        G0 == [G EXCEPT !.reqs[r].settings = settings] IN
    IF toolName \notin cachedToolsOf(settings, name)
    THEN respond(G0, r, 404, 0, << >>)
    ELSE callToolAnswer(G0, r, name, argsValid)

\* router.post('/servers/:name/call-tool')
callToolHandler(G, r, name, toolName, argsValid) ==
  IF ~has(G, name) THEN respond(G, r, 400, 0, << >>)
  ELSE
    LET settings == readMcpSettings(G.file)
        G0 == [G EXCEPT !.reqs[r].settings = settings] IN
    IF toolName \in disabledToolsOf(settings, name)
    THEN respond(G0, r, 403, 0, << >>)
    ELSE IF toolName \notin cachedToolsOf(settings, name)
    THEN respond(G0, r, 404, 0, << >>)
    ELSE callToolAnswer(G0, r, name, argsValid)

\* ------------------------------------------- McpClient: result unwrapping
\* A JSON value: its type, and for an object its keys (in insertion order)
\* with their values, for an array its elements, for a string its length.
Json(t, keys, kids, n) == [t |-> t, keys |-> keys, kids |-> kids, n |-> n]
JsonNull == Json("null", << >>, << >>, 0)
JsonNumber == Json("number", << >>, << >>, 0)
JsonString(n) == Json("string", << >>, << >>, n)
JsonArray(kids) == Json("array", << >>, kids, 0)
JsonObject(keys, kids) == Json("object", keys, kids, 0)

JsonLeaves == {JsonNull, JsonNumber, JsonString(0), JsonString(1), JsonString(2)}

RECURSIVE JsonValues(_)
\* The JSON values of nesting depth at most d.
JsonValues(d) ==
  IF d = 0 THEN JsonLeaves
  ELSE
    LET V == JsonValues(d - 1) IN
    JsonLeaves
      \cup {JsonArray(<< >>), JsonObject(<< >>, << >>)}
      \cup {JsonArray(<<v>>) : v \in V}
      \cup {JsonArray(<<v, JsonNumber>>) : v \in V}
      \cup {JsonObject(<<k>>, <<v>>) : k \in {"content", "toolResults"}, v \in V}
      \cup {JsonObject(<<k, "isError">>, <<v, JsonNumber>>) :
              k \in {"content", "toolResults"}, v \in V}

\* The outcome of a call: a returned value or a thrown error.
Returns(v) == [st |-> "value", value |-> v]
Throws == [st |-> "throws", value |-> JsonNull]

\* obj?.content !== undefined
hasContent(obj) ==
  obj.t = "object" /\ \E i \in 1..Len(obj.keys) : obj.keys[i] = "content"

\* Object.keys(obj).length (Object.keys(null) throws: not asked for null)
keyCount(obj) ==
  CASE obj.t = "object" -> Len(obj.keys)
    [] obj.t = "array"  -> Len(obj.kids)
    [] obj.t = "string" -> obj.n
    [] OTHER -> 0

\* A findContentLevel that unwraps the single property without descending
\* further.
findContentLevelOneLevel(obj) ==
  IF hasContent(obj) THEN Returns(obj)
  ELSE IF obj.t = "null" THEN Throws
  ELSE IF keyCount(obj) = 1
       THEN IF obj.t = "string" THEN Returns(obj) ELSE Returns(obj.kids[1])
       ELSE Returns(obj)

RECURSIVE findContentLevel(_)
\* findContentLevel: descend through single-property values until one has a
\* content field or has not exactly one property.  null throws a TypeError;
\* a one-character string is its own only property, so the descent never
\* ends and throws a RangeError.
findContentLevel(obj) ==
  IF hasContent(obj) THEN Returns(obj)
  ELSE IF obj.t = "null" THEN Throws
  ELSE IF keyCount(obj) = 1
       THEN IF obj.t = "string" THEN Throws ELSE findContentLevel(obj.kids[1])
       ELSE Returns(obj)

\* --------------------------------------------- index.ts: McpJsonRpcClient
\* The JSON-RPC client of index.ts on the stdio transport: its requests have
\* a deadline (requestTimeout).
RpcIds == 1..MaxRpcId
RpcMethods == {"tools/list", "tools/call"}

\* For initialize and shutdown no response is awaited.
isSpecialMethod(method) == method \in {"initialize", "shutdown"}

NewRpcClient ==
  [ connected       |-> FALSE,
    requestId       |-> 1,
    childProcess    |-> "null",                 \* null | running | exited
    pendingRequests |-> {},                     \* ids in the Map
    timer           |-> [i \in RpcIds |-> "none"],   \* timeoutId: armed | cleared | fired
    waiter          |-> [i \in RpcIds |-> NoPromise],
    method          |-> [i \in RpcIds |-> ""],
    writing         |-> {},                     \* ids whose stdin.write callback is due
    wire            |-> << >>,                  \* ids written to stdin, in order
    connecting      |-> "no",                   \* connectStdio: no | timer | done | failed
    closing         |-> "no" ]                  \* close(): no | shutdown | grace | done

\* resolve/reject of the promise of request id (a promise settles once).
rpcSettle(s, id, o) ==
  IF s.waiter[id].st = "pending" THEN [s EXCEPT !.waiter[id] = o] ELSE s

\* sendJsonRpcRequest: the connection check in front of the promise.
sendJsonRpcRequestThrows(s, ignoreConnectionCheck) ==
  ~ignoreConnectionCheck /\ ~s.connected

\* sendJsonRpcRequest past the check: id = requestId++, arm the timeout and
\* store the waiter (not for a special method), write the line to stdin.
sendJsonRpcRequest(s, method) ==
  LET id == s.requestId
      s1 == [s EXCEPT !.requestId = id + 1, !.waiter[id] = Pending,
                      !.method[id] = method] IN
  IF s.childProcess = "null"
  THEN rpcSettle(s1, id, Rejected(0))           \* 'No valid transport available'
  ELSE
    LET s2 == IF isSpecialMethod(method) THEN s1
              ELSE [s1 EXCEPT !.timer[id] = "armed",
                              !.pendingRequests = @ \cup {id}]
    IN [s2 EXCEPT !.wire = Append(@, id), !.writing = @ \cup {id}]

\* close() after its await of the shutdown request, on either outcome: the
\* finally block arms the kill timer and clears connected.
rpcCloseFinally(s) ==
  [s EXCEPT !.connected = FALSE,
            !.closing = IF s.childProcess # "null" THEN "grace" ELSE "done"]

\* The callback of stdin.write for request id.
rpcWriteDone(s, id, ok) ==
  LET s1 == [s EXCEPT !.writing = @ \ {id}]
      special == isSpecialMethod(s.method[id])
      s2 == IF ~ok
            THEN rpcSettle(
                   IF ~special /\ id \in s1.pendingRequests
                   THEN [s1 EXCEPT !.timer[id] = "cleared",
                                   !.pendingRequests = @ \ {id}]
                   ELSE s1,
                   id, Rejected(0))
            ELSE IF special THEN rpcSettle(s1, id, Resolved(NoValue))
            ELSE s1
  IN IF s.method[id] = "shutdown" THEN rpcCloseFinally(s2) ELSE s2

\* The setTimeout callback of request id: remove the entry and reject with
\* new Error('Request timed out after ...ms'), an error without a code.
rpcTimeout(s, id) ==
  LET s1 == [s EXCEPT !.timer[id] = "fired"] IN
  IF id \in s.pendingRequests
  THEN rpcSettle([s1 EXCEPT !.pendingRequests = @ \ {id}], id, Rejected(0))
  ELSE s1

\* The stdout handler for one line holding a response with this id.
rpcMessage(s, id, isError) ==
  IF id \notin s.pendingRequests THEN s
  ELSE
    LET s1 == [s EXCEPT !.timer[id] = IF @ = "armed" THEN "cleared" ELSE @] IN
    [rpcSettle(s1, id, IF isError THEN Rejected(0) ELSE Resolved(NoValue))
       EXCEPT !.pendingRequests = @ \ {id}]

\* connect() on stdio up to the 500 ms timer: spawn and send initialize.
rpcConnect(s) ==
  [sendJsonRpcRequest([s EXCEPT !.childProcess = "running"], "initialize")
     EXCEPT !.connecting = "timer"]

\* The 500 ms timer of connectStdio resolves; connect() sets connected.
rpcConnectTimer(s) == [s EXCEPT !.connecting = "done", !.connected = TRUE]

\* childProcess.on('error') and childProcess.on('exit').
rpcChildError(s) ==
  [s EXCEPT !.connected = FALSE,
            !.connecting = IF @ = "timer" THEN "failed" ELSE @]

rpcChildExit(s) == [s EXCEPT !.connected = FALSE, !.childProcess = "exited"]

\* close() up to its await: the shutdown request.
rpcClose(s) ==
  IF ~s.connected THEN s
  ELSE [sendJsonRpcRequest(s, "shutdown") EXCEPT !.closing = "shutdown"]

\* The 1 s timer of close(): kill the child and forget it.
rpcKill(s) == [s EXCEPT !.childProcess = "null", !.closing = "done"]

\* ------------------------------------------------------------------ state
VARIABLES
  clients,      \* every McpClient object constructed so far (Unborn: not yet)
  mcpClients,   \* the registry: Map<string, McpClient>, name -> Client
  file,         \* the settings document in mcp_settings.json
  reqs,         \* the HTTP requests of the control plane
  result,       \* the result of a tools/call response given to findContentLevel
  unwrapped,    \* the outcomes of findContentLevel applied to it, in order
  rpc,          \* the McpJsonRpcClient of index.ts
  disk,         \* the directory that holds mcp_settings.json
  stdout        \* the stdout pipe of a child process and its 'data' handler

vars == << clients, mcpClients, file, reqs, result, unwrapped, rpc, disk, stdout >>

\* The variables of the control plane and its Clients.
plane == << clients, mcpClients, file, reqs >>

\* No McpJsonRpcClient is in use.
NoRpc == rpc = NewRpcClient

\* The directory is not looked at.
NoDisk == disk = NewDisk(NoFile)
NoStdout == stdout = NewStdout("none")

\* No tools/call result is being unwrapped.
NoUnwrap == result = JsonNull /\ unwrapped = << >>

\* The current state as one value; fits turns FALSE when an operation would
\* need more Clients or request ids than the bounds allow.
Now ==
  [clients |-> clients, mcpClients |-> mcpClients, file |-> file,
   reqs |-> reqs, fits |-> TRUE]

WithinBounds(G) ==
  /\ G.fits
  /\ \A c \in Clients : /\ G.clients[c].requestId <= MaxRequestId
                        /\ G.clients[c].nhs <= MaxHandshakes

\* The state after an event handler ran and every continuation it made
\* ready has run.
Commit(G) ==
  \E D \in {drain(G)} :
  /\ WithinBounds(D)
  /\ clients' = D.clients
  /\ mcpClients' = D.mcpClients
  /\ file' = D.file
  /\ reqs' = D.reqs
  /\ UNCHANGED << result, unwrapped, rpc, disk, stdout >>

Step(c, s) == Commit([Now EXCEPT !.clients[c] = s])

\* The messages a server may send to Client s: a notification, or a result,
\* a tool error or an error response for any id.  Only the result of a
\* tools/list request carries a tools array.
ResultValues(s, id) ==
  IF Frame(id, "tools/list") \in s.pendingRequests THEN ToolLists ELSE {NoValue}

\* Ids of inbound messages: the ids allocated so far and one id that no
\* request has (every unknown id is handled alike).
InboundIds(s) == {i \in Ids : i <= s.requestId + 1}

ServerMessages(s) ==
  {Message(0, "notification", NoValue, 0)}
    \cup UNION {{Message(i, "result", v, 0) : v \in ResultValues(s, i)} : i \in InboundIds(s)}
    \cup {Message(i, "toolError", NoValue, 0) : i \in InboundIds(s)}
    \cup {Message(i, "error", NoValue, code) : i \in InboundIds(s), code \in ServerErrorCodes}

\* The settings documents the plugin may find at start-up: the default one,
\* a server with its cached tool, the same with the server or the tool
\* disabled, and a hand-edited file that still names the tools of a server
\* it no longer lists, and a hand-edited file with one server, none of the
\* optional keys and a key of another program.
AllKeys == MigratedKeys \cup {"mcpServers"}
Server(names) == [n \in names |-> StdioConfig]
InitialDocs ==
  { DefaultSettings,
    Doc(AllKeys, Server({"a"}), {}, NoMap, [n \in {"a"} |-> <<"echo">>]),
    Doc(AllKeys, Server({"a"}), {"a"}, NoMap, [n \in {"a"} |-> <<"echo">>]),
    Doc(AllKeys, Server({"a"}), {}, [n \in {"a"} |-> {"echo"}],
        [n \in {"a"} |-> <<"echo">>]),
    Doc(AllKeys, NoMap, {}, [n \in {"a"} |-> {"echo"}],
        [n \in {"a"} |-> <<"echo">>]),
    [Doc({"mcpServers", UnknownKey}, Server({"a"}), {}, NoMap, NoMap)
       EXCEPT !.other = "dark"] }

\* ----------------------------------------------- events of one McpClient
\* The application calls connect() (once per Client, as startMcpServer does).
AppConnect(c) ==
  /\ clients[c].transport \in Transports
  /\ clients[c].nhs = 0
  /\ Step(c, connect(clients[c]))

\* Calls the application made on Client s so far.
AppCalls(s) ==
  Cardinality({i \in Ids : /\ s.waiter[i].st # "none" /\ s.parent[i] = 0
                           /\ \E m \in {"tools/list", "tools/call"} :
                                 \E k \in 1..Len(s.wire) : s.wire[k] = Frame(i, m)})

AppListTools(c) ==
  /\ clients[c].transport \in Transports
  /\ AppCalls(clients[c]) < MaxCalls
  /\ sendRequestThrows(clients[c], "tools/list") \/ clients[c].requestId < MaxRequestId
  /\ Step(c, request(clients[c], "tools/list"))

AppCallTool(c) ==
  /\ clients[c].transport \in Transports
  /\ AppCalls(clients[c]) < MaxCalls
  /\ sendRequestThrows(clients[c], "tools/call") \/ clients[c].requestId < MaxRequestId
  /\ Step(c, request(clients[c], "tools/call"))

AppClose(c) ==
  /\ clients[c].transport \in Transports
  /\ clients[c].nhs > 0
  /\ Step(c, close(clients[c]))

TimerFire(c) ==
  \E h \in Handshakes :
    /\ clients[c].hs[h].pos = "timer"
    /\ clients[c].requestId < MaxRequestId
    /\ Step(c, timerFire(clients[c], h))

ProcError(c) ==
  /\ clients[c].proc = "running"
  /\ clients[c].hs[clients[c].nhs].pos = "timer"
  /\ Step(c, procError(clients[c], clients[c].nhs))

ProcExit(c) ==
  /\ clients[c].proc = "running"
  /\ Step(c, procExit(clients[c], clients[c].nhs))

ProcClose(c) ==
  /\ clients[c].proc \in {"exited", "failed"}
  /\ Step(c, procClose(clients[c]))

\* proc.stdout.on('data'): one line of the running child.
StdoutData(c) ==
  /\ clients[c].proc = "running"
  /\ \E msg \in ServerMessages(clients[c]) : Step(c, handleMessage(clients[c], msg))

SseMessage(c) ==
  /\ clients[c].transport = "sse"
  /\ clients[c].eventSource
  /\ \E msg \in ServerMessages(clients[c]) : Step(c, handleMessage(clients[c], msg))

EndpointEvent(c) ==
  \E h \in Handshakes : \E session \in {0, h} :
    /\ clients[c].transport = "sse"
    /\ clients[c].eventSource
    /\ clients[c].hs[h].pos = "endpoint"
    /\ clients[c].requestId < MaxRequestId
    /\ Step(c, endpointEvent(clients[c], h, session))

FetchFailed(c) ==
  \E id \in Ids :
    /\ clients[c].exec[id] = "fetch"
    /\ Step(c, fetchFailed(clients[c], id))

SsePostDone(c) ==
  \E id \in Ids, ok \in BOOLEAN :
    /\ clients[c].transport = "sse"
    /\ clients[c].exec[id] = "fetch"
    /\ Step(c, ssePostDone(clients[c], id, ok))

\* The bodies a streamable-HTTP server may answer a POST with.
HttpBodies(s) ==
  {<<"json", <<m>> >> : m \in ServerMessages(s)}
    \cup {<<"event-stream", ms>> : ms \in {<< >>} \cup {<<m>> : m \in ServerMessages(s)}}
    \cup {<<"text", << >> >>}

HttpResponse(c) ==
  \E id \in Ids, status \in {200, 404}, body \in HttpBodies(clients[c]) :
    /\ clients[c].transport = "streamableHttp"
    /\ clients[c].exec[id] = "fetch"
    /\ (status = 404 /\ clients[c].sessionId # 0) =>
          /\ clients[c].requestId < MaxRequestId
          /\ clients[c].nhs < MaxHandshakes
    /\ Step(c, httpResponse(clients[c], id, status, body[1], body[2]))

InitFetchFailed(c) ==
  \E h \in Handshakes :
    /\ clients[c].transport = "streamableHttp"
    /\ clients[c].hs[h].pos = "initialize"
    /\ Step(c, initFetchFailed(clients[c], h))

InitHttpResponse(c) ==
  \E h \in Handshakes : \E ok \in BOOLEAN, session \in {0, h}, parses \in BOOLEAN :
    /\ clients[c].transport = "streamableHttp"
    /\ clients[c].hs[h].pos = "initialize"
    /\ Step(c, initHttpResponse(clients[c], h, ok, session, parses))

NotifyDone(c) ==
  \E h \in Handshakes, ok \in BOOLEAN :
    /\ clients[c].hs[h].pos = "notify"
    /\ clients[c].requestId + RetriesWaiting(clients[c], h) <= MaxRequestId
    /\ Step(c, notifyDone(clients[c], h, ok))

\* ------------------------------------------- specification of one McpClient
\* The servers a Client may shake hands with: one that answers with the
\* Client's own version, one with an older version, one that leaves
\* protocolVersion out; with or without the tools capability.
Peers ==
  {InitializeResult(v, caps) : v \in {PROTOCOL_VERSION, "2024-11-05", ""},
                               caps \in {"server", "none"}}

InitClient ==
  /\ \E t \in Transports :
       clients = [c \in Clients |-> IF c = 1 THEN NewClient(t, "a") ELSE Unborn]
  /\ mcpClients = NoMap
  /\ file = DefaultSettings
  /\ reqs = [r \in Reqs |-> NoReq]
  /\ NoUnwrap
  /\ NoRpc
  /\ NoDisk
  /\ NoStdout

NextClient ==
  \E c \in Clients :
    \/ AppConnect(c) \/ AppListTools(c) \/ AppCallTool(c) \/ AppClose(c)
    \/ TimerFire(c) \/ ProcError(c) \/ ProcExit(c) \/ ProcClose(c)
    \/ StdoutData(c)
    \/ SseMessage(c) \/ EndpointEvent(c) \/ FetchFailed(c) \/ SsePostDone(c)
    \/ HttpResponse(c) \/ InitFetchFailed(c) \/ InitHttpResponse(c)
    \/ NotifyDone(c)

SpecClient == InitClient /\ [][NextClient]_vars

\* ------------------------------------------- specification of the handshake
\* One Client and any of the servers; the application connects and closes.
InitHandshake ==
  /\ \E t \in Transports, peer \in Peers :
       clients = [c \in Clients |->
                   IF c = 1 THEN [NewClient(t, "a") EXCEPT !.peer = peer] ELSE Unborn]
  /\ mcpClients = NoMap
  /\ file = DefaultSettings
  /\ reqs = [r \in Reqs |-> NoReq]
  /\ NoUnwrap
  /\ NoRpc
  /\ NoDisk
  /\ NoStdout

NextHandshake ==
  \E c \in Clients :
    \/ AppConnect(c) \/ AppClose(c)
    \/ TimerFire(c) \/ ProcError(c) \/ ProcExit(c) \/ ProcClose(c)
    \/ StdoutData(c)
    \/ SseMessage(c) \/ EndpointEvent(c) \/ FetchFailed(c) \/ SsePostDone(c)
    \/ InitFetchFailed(c) \/ InitHttpResponse(c)
    \/ NotifyDone(c)

SpecHandshake == InitHandshake /\ [][NextHandshake]_vars

\* ------------------------------------------------ requests of the control plane
\* Request r arrives: its handler runs to its first await or its response.
Arrives(r) ==
  reqs[r].pc = "new" /\ (IF r = 1 THEN TRUE ELSE reqs[r - 1].pc # "new")

Arrived(r, kind, name) ==
  [Now EXCEPT !.reqs[r].kind = kind, !.reqs[r].name = name, !.reqs[r].pc = "run"]

PostStart(r) ==
  \E name \in Names :
    Arrives(r) /\ Commit(startHandler(Arrived(r, "start", name), r, name))

PostStop(r) ==
  \E name \in Names :
    Arrives(r) /\ Commit(stopHandler(Arrived(r, "stop", name), r, name))

PostReloadTools(r) ==
  \E name \in Names :
    Arrives(r) /\ Commit(reloadHandler(Arrived(r, "reload", name), r, name))

DeleteServer(r) ==
  \E name \in Names :
    Arrives(r) /\ Commit(deleteHandler(Arrived(r, "delete", name), r, name))

PostCallTool(r) ==
  \E name \in Names, toolName \in Tools, argsValid \in BOOLEAN :
    /\ Arrives(r)
    /\ Commit(callToolHandler(
         [Arrived(r, "call", name) EXCEPT !.reqs[r].toolName = toolName,
                                          !.reqs[r].argsValid = argsValid],
         r, name, toolName, argsValid))

PostServers(r) ==
  \E name \in Names, config \in PostedConfigs :
    Arrives(r) /\ Commit(postServersHandler(Arrived(r, "add", name), r, name, config))

GetServers(r) ==
  Arrives(r) /\ Commit(getServersHandler(Arrived(r, "servers", ""), r))

GetListTools(r) ==
  \E name \in Names :
    Arrives(r) /\ Commit(listToolsHandler(Arrived(r, "listTools", name), r, name))

\* The bodies of the two routes that take an array: not an array, or an array.
PostedArrays(elements) ==
  {<<FALSE, {}>>} \cup {<<TRUE, v>> : v \in SUBSET elements}

PostDisabledServers(r) ==
  \E body \in PostedArrays(Names) :
    /\ Arrives(r)
    /\ Commit(disabledServersHandler(
         [Arrived(r, "disabledServers", "") EXCEPT !.reqs[r].posted = body[2]],
         r, body[1], body[2]))

PostDisabledTools(r) ==
  \E name \in Names, body \in PostedArrays({"echo"}) :
    /\ Arrives(r)
    /\ Commit(disabledToolsHandler(
         [Arrived(r, "disabledTools", name) EXCEPT !.reqs[r].posted = body[2]],
         r, name, body[1], body[2]))

\* ----------------------------------------- specification of the control plane
Init ==
  /\ clients = [c \in Clients |-> Unborn]
  /\ mcpClients = NoMap
  /\ file \in InitialDocs
  /\ reqs = [r \in Reqs |-> NoReq]
  /\ NoUnwrap
  /\ NoRpc
  /\ NoDisk
  /\ NoStdout

Next ==
  \/ \E r \in Reqs :
       \/ PostStart(r) \/ PostStop(r) \/ PostReloadTools(r)
       \/ DeleteServer(r) \/ PostCallTool(r) \/ PostServers(r)
       \/ GetServers(r) \/ GetListTools(r)
       \/ PostDisabledServers(r) \/ PostDisabledTools(r)
  \/ \E c \in Clients :
       \/ TimerFire(c) \/ ProcError(c) \/ ProcExit(c) \/ ProcClose(c)
       \/ StdoutData(c)

Spec == Init /\ [][Next]_vars

\* What the runtime guarantees to run: the setTimeout callback of a stdio
\* handshake, and the 'close' event of a child that exited or failed to
\* spawn.  Whether and when a server answers or exits is up to the server.
FairSpec ==
  /\ Spec
  /\ \A c \in Clients : WF_vars(TimerFire(c)) /\ WF_vars(ProcClose(c))

\* ------------------------------------- specification of the result unwrapping
\* handleMessage unwraps the result of a tools/call response.
FindContentLevel ==
  /\ unwrapped = << >>
  /\ unwrapped' = <<findContentLevel(result)>>
  /\ UNCHANGED << plane, result, rpc, disk, stdout >>

\* The unwrapped value is given to findContentLevel once more.
FindContentLevelAgain ==
  /\ Len(unwrapped) = 1 /\ unwrapped[1].st = "value"
  /\ unwrapped' = Append(unwrapped, findContentLevel(unwrapped[1].value))
  /\ UNCHANGED << plane, result, rpc, disk, stdout >>

InitUnwrap ==
  /\ clients = [c \in Clients |-> Unborn]
  /\ mcpClients = NoMap
  /\ file = DefaultSettings
  /\ reqs = [r \in Reqs |-> NoReq]
  /\ result \in JsonValues(MaxDepth)
  /\ unwrapped = << >>
  /\ NoRpc
  /\ NoDisk
  /\ NoStdout

NextUnwrap == FindContentLevel \/ FindContentLevelAgain

SpecUnwrap == InitUnwrap /\ [][NextUnwrap]_vars

\* ------------------------------------- specification of the McpJsonRpcClient
RpcStep(s) == rpc' = s /\ UNCHANGED << plane, result, unwrapped, disk, stdout >>

RpcConnect ==
  /\ ~rpc.connected /\ rpc.connecting = "no" /\ rpc.requestId <= MaxRpcId
  /\ RpcStep(rpcConnect(rpc))

RpcConnectTimer == rpc.connecting = "timer" /\ RpcStep(rpcConnectTimer(rpc))

RpcChildError ==
  /\ rpc.childProcess = "running" /\ rpc.connecting = "timer"
  /\ RpcStep(rpcChildError(rpc))

RpcChildExit == rpc.childProcess = "running" /\ RpcStep(rpcChildExit(rpc))

\* listTools() / callTool() of the application.
RpcCall ==
  \E method \in RpcMethods :
    /\ ~sendJsonRpcRequestThrows(rpc, FALSE) /\ rpc.requestId <= MaxRpcId
    /\ RpcStep(sendJsonRpcRequest(rpc, method))

RpcClose ==
  /\ rpc.connected /\ rpc.closing = "no" /\ rpc.requestId <= MaxRpcId
  /\ RpcStep(rpcClose(rpc))

RpcWriteDone ==
  \E id \in rpc.writing : \E ok \in BOOLEAN :
    /\ ok => rpc.childProcess = "running"
    /\ RpcStep(rpcWriteDone(rpc, id, ok))

RpcTimeout ==
  \E id \in RpcIds : rpc.timer[id] = "armed" /\ RpcStep(rpcTimeout(rpc, id))

\* The child answers a request it has read (in any order, with a result or
\* an error), also one whose deadline has passed.
RpcMessage ==
  \E k \in 1..Len(rpc.wire) : \E isError \in BOOLEAN :
    /\ rpc.childProcess = "running"
    /\ ~isSpecialMethod(rpc.method[rpc.wire[k]])
    /\ RpcStep(rpcMessage(rpc, rpc.wire[k], isError))

RpcKill == rpc.closing = "grace" /\ RpcStep(rpcKill(rpc))

InitRpc ==
  /\ clients = [c \in Clients |-> Unborn]
  /\ mcpClients = NoMap
  /\ file = DefaultSettings
  /\ reqs = [r \in Reqs |-> NoReq]
  /\ NoUnwrap
  /\ NoDisk
  /\ NoStdout
  /\ rpc = NewRpcClient

NextRpc ==
  \/ RpcConnect \/ RpcConnectTimer \/ RpcChildError \/ RpcChildExit
  \/ RpcCall \/ RpcClose \/ RpcWriteDone \/ RpcTimeout \/ RpcMessage
  \/ RpcKill

SpecRpc == InitRpc /\ [][NextRpc]_vars

\* ------------------------------------------ specification of the settings file
DiskStep(d) == disk' = d /\ UNCHANGED << plane, result, unwrapped, rpc, stdout >>

\* A route calls readMcpSettings; the call runs to its end before any other
\* code of the process runs.
DiskReadSettings ==
  /\ ~disk.crashed /\ disk.ops = << >>
  /\ DiskStep(readMcpSettingsFromDisk(disk))

\* A route that has read the settings calls writeMcpSettings.
DiskWriteSettings ==
  \E settings \in InitialDocs :
    /\ ~disk.crashed /\ disk.ops = << >> /\ disk.file.exists
    /\ DiskStep(writeMcpSettingsToDisk(disk, settings))

\* The running write makes its next system call.
DiskSyscall ==
  /\ ~disk.crashed /\ disk.ops # << >>
  /\ DiskStep([syscall(disk, Head(disk.ops)) EXCEPT !.ops = Tail(disk.ops)])

\* The process dies; the system calls it had still to make are never made.
DiskCrash ==
  /\ ~disk.crashed
  /\ DiskStep([disk EXCEPT !.crashed = TRUE, !.ops = << >>])

\* The process is started again.
DiskRestart ==
  /\ disk.crashed
  /\ DiskStep([disk EXCEPT !.crashed = FALSE])

\* Another process, or the plugin after a crash, reads the file as it is.
DiskObserve ==
  /\ disk.file.exists
  /\ disk.ops # << >> \/ disk.crashed
  /\ DiskStep([disk EXCEPT !.read = disk.file])

InitDisk ==
  /\ clients = [c \in Clients |-> Unborn]
  /\ mcpClients = NoMap
  /\ file = DefaultSettings
  /\ reqs = [r \in Reqs |-> NoReq]
  /\ NoUnwrap
  /\ NoRpc
  /\ disk \in {NewDisk(f) : f \in {NoFile} \cup {Whole(d) : d \in InitialDocs}}
  /\ NoStdout

NextDisk ==
  \/ DiskReadSettings \/ DiskWriteSettings \/ DiskSyscall
  \/ DiskCrash \/ DiskRestart \/ DiskObserve

SpecDisk == InitDisk /\ [][NextDisk]_vars

\* ----------------------------------------- specification of a child's stdout
StdoutStep(s) == stdout' = s /\ UNCHANGED << plane, result, unwrapped, rpc, disk >>

\* The child writes one line and its newline.
ChildWrite ==
  \E line \in Lines :
    /\ Len(stdout.written) < MaxLines
    /\ StdoutStep([stdout EXCEPT !.written = Append(@, line),
                                 !.pipe = @ \o line \o <<"\n">>])

\* One 'data' event: the stream hands over any number of the characters that
\* wait in the pipe.
StdoutDataEvent ==
  \E k \in 1..Len(stdout.pipe) :
    LET data == SubSeq(stdout.pipe, 1, k)
        s == [stdout EXCEPT !.pipe = SubSeq(@, k + 1, Len(@))]
    IN StdoutStep(IF stdout.reader = "McpClient" THEN stdoutOnData(s, data)
                  ELSE stdoutOnDataBuffered(s, data))

InitStdout ==
  /\ clients = [c \in Clients |-> Unborn]
  /\ mcpClients = NoMap
  /\ file = DefaultSettings
  /\ reqs = [r \in Reqs |-> NoReq]
  /\ NoUnwrap
  /\ NoRpc
  /\ NoDisk
  /\ stdout \in {NewStdout(reader) : reader \in {"McpClient", "McpJsonRpcClient"}}

NextStdout == ChildWrite \/ StdoutDataEvent

SpecStdout == InitStdout /\ [][NextStdout]_vars

\* =================================================================== claims
\* C1: at most one Client per server name is alive (its child process
\* running, handshaking or connected) at any instant, under any interleaving
\* of start, stop and reload-tools requests.
AtMostOneClientAlive ==
  \A name \in Names :
    Cardinality({c \in Clients : /\ clients[c].clientInfo = name
                                 /\ clients[c].proc = "running"}) <= 1

\* C2: a request whose waiter has been resolved or rejected has no entry in
\* the pending table any more, on every transport; so the table is empty once
\* every request has its outcome.
SettledWaiterLeftPendingTable ==
  \A c \in Clients : \A i \in Ids :
    Settled(clients[c].waiter[i]) => i \notin PendingIds(clients[c])

\* C3: the ids of the requests a Client puts on the wire start at 1 and are
\* strictly increasing, initialize requests of handshakes and re-handshakes
\* included, so no pending id is ever used by a second request.
RequestIdsStrictlyIncrease ==
  \A c \in Clients :
    LET w == SelectSeq(clients[c].wire, LAMBDA f : f.id # 0) IN
    /\ Len(w) > 0 => w[1].id = 1
    /\ \A k \in 1..Len(w) : \A j \in 1..Len(w) : k < j => w[k].id < w[j].id
    /\ \A p \in clients[c].pendingRequests :
         Cardinality({k \in 1..Len(w) : w[k].id = p.id}) = 1

\* C3 witness: a streamable-HTTP Client re-ran the handshake after a 404 and
\* put the retry of the request on the wire.
RehandshakeAndRetrySent ==
  \E c \in Clients : \E i \in Ids :
    /\ clients[c].transport = "streamableHttp"
    /\ clients[c].nhs = 2
    /\ clients[c].parent[i] # 0
    /\ clients[c].wire[Len(clients[c].wire)].id = i

\* C4: when DELETE /servers/:name has answered, the settings document has
\* no mcpServers[name], disabledTools[name] or cachedTools[name], and
\* disabledServers is what it was, whether or not mcpServers[name] existed.
DeleteRemovesEveryEntry ==
  [][\A r \in Reqs :
       (reqs[r].status = 0 /\ reqs'[r].kind = "delete" /\ reqs'[r].status = 200)
         => /\ reqs'[r].name \notin DOMAIN file'.mcpServers
            /\ reqs'[r].name \notin DOMAIN file'.disabledTools
            /\ reqs'[r].name \notin DOMAIN file'.cachedTools
            /\ file'.disabledServers = file.disabledServers]_vars

\* C5: once the child process of a Client is gone (exit and close seen), no
\* tools/list or tools/call waiter is still pending and the pending table
\* holds no such request.
TeardownRejectsWaiters ==
  \A c \in Clients :
    clients[c].proc = "closed" =>
      \A f \in {clients[c].wire[k] : k \in 1..Len(clients[c].wire)} :
        (f.id # 0 /\ f.method # "initialize") =>
          /\ clients[c].waiter[f.id].st # "pending"
          /\ f.id \notin PendingIds(clients[c])

\* C6: a Client whose child process is gone is not in the registry.
DeadClientNotRegistered ==
  \A n \in DOMAIN mcpClients : clients[mcpClients[n]].proc # "closed"

\* C7: reload-tools stops the server exactly when it started it: the Client
\* it closes is the one it constructed, and a Client it started and connected
\* has been closed by it when the reload is over.
ReloadStopsExactlyItsOwnServer ==
  \A r \in Reqs :
    reqs[r].kind = "reload" =>
      /\ reqs[r].stopped # 0 => reqs[r].stopped = reqs[r].started
      /\ ( /\ reqs[r].pc = "done" /\ reqs[r].started # 0
           /\ clients[reqs[r].started].hs[1].promise.st = "resolved" )
         => reqs[r].stopped = reqs[r].started

\* C8: a reload-tools request that takes the failure path (start or listTools
\* failed) does not write the settings file: the document, cachedTools[name]
\* included, is the same before and after the step in which it fails.
ReloadFailureKeepsCache ==
  [][\A r \in Reqs :
       (reqs'[r].kind = "reload" /\ ~reqs[r].error /\ reqs'[r].error)
         => file' = file]_vars

\* C8 witness: a reload failed and answered while the cache of its server
\* still holds the tool it held before.
ReloadFailedCacheIntact ==
  \E r \in Reqs :
    /\ reqs[r].kind = "reload" /\ reqs[r].error /\ reqs[r].pc = "done"
    /\ reqs[r].name \in DOMAIN file.cachedTools
    /\ file.cachedTools[reqs[r].name] = <<"echo">>

\* C9: a reload-tools request whose start or listTools failed answers 500.
ReloadFailureAnswers500 ==
  \A r \in Reqs :
    (reqs[r].kind = "reload" /\ reqs[r].error /\ reqs[r].status # 0)
      => reqs[r].status = 500

\* C10: a call-tool request whose arguments do not match the schema of the
\* tool sends no tools/call request and answers 500 with code -32602.
InvalidArgumentsAnswerInvalidParams ==
  \A r \in Reqs :
    (reqs[r].kind = "call" /\ ~reqs[r].argsValid
       /\ reqs[r].status \notin {0, 400, 403, 404})
      => /\ reqs[r].awaitId = 0
         /\ reqs[r].status = 500
         /\ reqs[r].code = InvalidParams

\* C11: a call-tool request on a running server answers 403 and sends
\* nothing when the settings it read list the tool in disabledTools[name],
\* and answers 404 and sends nothing when cachedTools[name] has no such tool;
\* every tools/call frame on a wire belongs to a request whose tool was
\* enabled and cached in the settings that request read.
DisabledOrUnknownToolNeverCalled ==
  /\ \A r \in Reqs :
       (reqs[r].kind = "call" /\ reqs[r].status \notin {0, 400}) =>
         LET q == reqs[r] IN
         /\ q.toolName \in disabledToolsOf(q.settings, q.name)
              => q.status = 403 /\ q.awaitId = 0
         /\ ( /\ q.toolName \notin disabledToolsOf(q.settings, q.name)
              /\ q.toolName \notin cachedToolsOf(q.settings, q.name) )
              => q.status = 404 /\ q.awaitId = 0
  /\ \A c \in Clients : \A k \in 1..Len(clients[c].wire) :
       clients[c].wire[k].method = "tools/call" =>
         \E r \in Reqs :
           /\ reqs[r].kind = "call" /\ reqs[r].client = c
           /\ reqs[r].awaitId = clients[c].wire[k].id
           /\ reqs[r].toolName \notin disabledToolsOf(reqs[r].settings, reqs[r].name)
           /\ reqs[r].toolName \in cachedToolsOf(reqs[r].settings, reqs[r].name)

\* C11 witness: a call of a disabled tool on a registered, connected server
\* was answered 403.
DisabledToolCallRefused ==
  \E r \in Reqs :
    /\ reqs[r].kind = "call" /\ reqs[r].status = 403
    /\ reqs[r].toolName \in disabledToolsOf(reqs[r].settings, reqs[r].name)
    /\ reqs[r].name \in DOMAIN mcpClients
    /\ clients[mcpClients[reqs[r].name]].isConnected

StartOfUnknownOrDisabledRefused ==
  [][\A r \in Reqs :
       (reqs[r].pc = "new" /\ reqs'[r].kind = "start") =>
         LET settings == readMcpSettings(file)
             name == reqs'[r].name IN
         /\ ~known(settings, name) => reqs'[r].status = 404
         /\ (known(settings, name) /\ name \in settings.disabledServers)
              => reqs'[r].status = 403
         /\ reqs'[r].status \in {403, 404}
              => /\ clients' = clients
                 /\ mcpClients' = mcpClients
                 /\ reqs'[r].started = 0]_vars

\* C13 witness: a start of a disabled server was answered 403 and no Client
\* has been constructed.
DisabledServerStartRefused ==
  \E r \in Reqs :
    /\ reqs[r].kind = "start" /\ reqs[r].status = 403
    /\ reqs[r].name \in file.disabledServers
    /\ \A c \in Clients : clients[c] = Unborn

\* C14: a start request for a name that has a registry entry at its arrival
\* is not answered as a success.
StartOfRunningServerFails ==
  [][\A r \in Reqs :
       ( /\ reqs[r].pc = "new" /\ reqs'[r].kind = "start"
         /\ reqs'[r].name \in DOMAIN mcpClients
         /\ reqs'[r].status \notin {403, 404} )
         => reqs'[r].status \notin {0, 200}]_vars

\* C15: from the moment a stop has called close() on a Client, that Client
\* is not in the registry.
ClosingClientNotInRegistry ==
  \A r \in Reqs :
    reqs[r].stopped # 0 =>
      \A n \in DOMAIN mcpClients : mcpClients[n] # reqs[r].stopped

\* C16: when a DELETE /servers/:name and the stop it requested are over and
\* the name is no longer in mcpServers, the registry has no Client for it.
DeletedServerNotRegistered ==
  \A r \in Reqs :
    ( /\ reqs[r].kind = "delete" /\ reqs[r].status = 200 /\ reqs[r].pc = "done"
      /\ reqs[r].name \notin DOMAIN file.mcpServers )
      => reqs[r].name \notin DOMAIN mcpClients

\* C17: the retry of a request that met an expired session is itself never
\* re-handshaken or retried: a 404 on the retry settles it with an error.
RetryNeverRehandshakes ==
  \A c \in Clients : \A i \in Ids :
    clients[c].parent[i] # 0 => clients[c].exec[i] \notin {"reconnect", "retry"}

\* C18: unwrapping is idempotent: findContentLevel applied to a value it
\* returned returns that value again.
UnwrapIdempotent ==
  Len(unwrapped) = 2 => unwrapped[2] = unwrapped[1]

\* C18 witness: a result wrapped at least twice was unwrapped to an inner
\* node, and that node was unwrapped again.
WrappedResultUnwrappedTwice ==
  /\ Len(unwrapped) = 2
  /\ unwrapped[2].st = "value"
  /\ keyCount(result) = 1 /\ result.t = "object"
  /\ keyCount(result.kids[1]) = 1 /\ result.kids[1].t = "object"
  /\ unwrapped[1].value \notin {result, result.kids[1]}

\* C19: a waiter whose deadline expired has left the pending table and is
\* rejected with RequestTimeout (-32001).
ExpiredWaiterRejectedWithRequestTimeout ==
  \A i \in RpcIds :
    rpc.timer[i] = "fired" =>
      /\ i \notin rpc.pendingRequests
      /\ rpc.waiter[i] = Rejected(RequestTimeout)

\* C20: the response of GET /servers is the same for every settings document
\* that differs from the one read only in the env of its entries, and the
\* config of each item holds command and args only.
ServersResponseIndependentOfEnv ==
  [][\A r \in Reqs :
       (reqs[r].pc = "new" /\ reqs'[r].kind = "servers") =>
         /\ \A e \in Envs :
              reqs'[r].servers =
                getServersHandler([Now EXCEPT !.file = withEnv(file, e)], r)
                  .reqs[r].servers
         /\ \A item \in reqs'[r].servers :
              DOMAIN item.config = {"command", "args"}]_vars

\* C20 witness: GET /servers answered with the item of a server whose entry
\* has a non-empty env.
ServerWithEnvListed ==
  \E r \in Reqs :
    /\ reqs[r].kind = "servers" /\ reqs[r].status = 200
    /\ \E item \in reqs[r].servers :
         /\ item.name \in DOMAIN file.mcpServers
         /\ file.mcpServers[item.name].env # ""

\* ------------------------------------------------- frame of a settings write
\* The top-level keys a settings document may carry.
TopKeys == AllKeys \cup {UnknownKey}

\* The value of top-level key k of a settings document.
Value(doc, k) ==
  CASE k = "mcpServers"      -> doc.mcpServers
    [] k = "disabledServers" -> doc.disabledServers
    [] k = "disabledTools"   -> doc.disabledTools
    [] k = "cachedTools"     -> doc.cachedTools
    [] OTHER                 -> doc.other

\* The top-level keys the route of a request assigns to before it writes.
Targets(kind) ==
  CASE kind = "add"                     -> {"mcpServers"}
    [] kind = "delete"                  -> {"mcpServers", "disabledTools", "cachedTools"}
    [] kind = "disabledServers"         -> {"disabledServers"}
    [] kind = "disabledTools"           -> {"disabledTools"}
    [] kind \in {"reload", "listTools"} -> {"cachedTools"}
    [] OTHER                            -> {}

\* C21: every settings mutation (add, delete, set disabled servers, set
\* disabled tools, reload cache) leaves every top-level key it does not target
\* as it was in the file, unknown keys included; a known key the file lacked
\* may appear, with its default value.
SettingsWriteKeepsOtherKeys ==
  [][file' # file =>
       LET T == UNION {Targets(reqs'[r].kind) : r \in {x \in Reqs : reqs'[x] # reqs[x]}} IN
       \A k \in TopKeys \ T :
         /\ Value(file', k) = Value(file, k)
         /\ k \in file.keys => k \in file'.keys
         /\ k \in file'.keys \ file.keys => k \in AllKeys]_vars

\* C23: a write is a read-modify-write of the latest document, so no mutation
\* is lost while a reload is in flight: once the only request that sets the
\* disabled servers was answered 200, the file holds the array it posted.
AnsweredMutationStaysInFile ==
  \A r \in Reqs :
    (/\ reqs[r].kind = "disabledServers" /\ reqs[r].status = 200
     /\ \A x \in Reqs \ {r} : reqs[x].kind # "disabledServers")
      => file.disabledServers = reqs[r].posted

\* C22: a settings write is an atomic replace: whoever reads the file gets a
\* whole document, never a partly written one, and when the process crashes
\* before the rename of a write the file is what it was when the write began.
SettingsFileNeverTorn ==
  /\ disk.read.exists => disk.read.len = MaxChunks
  /\ disk.crashed /\ ~disk.renamed => disk.file = disk.prior

\* C22 witness: the process crashed after it wrote part of a different
\* document to the temporary file and before the rename, and what a reader
\* got from the settings file is the document of before the write.
CrashedBeforeRenameThenRead ==
  /\ disk.crashed /\ ~disk.renamed
  /\ disk.temp.exists /\ disk.temp.doc # disk.file.doc
  /\ disk.read.exists /\ disk.read = disk.file

\* C24: CLOSED is terminal: a Client on which close() did its work and
\* returned never becomes connected again and puts nothing further on the
\* wire, whatever arrives for the requests that were in flight.
ClosedIsTerminal ==
  [][\A c \in Clients :
       clients[c].closed =>
         /\ clients'[c].isConnected => clients[c].isConnected
         /\ clients'[c].wire = clients[c].wire
         /\ clients'[c].nhs = clients[c].nhs]_vars

NotConnectedRequestsFail ==
  [][\A c \in Clients :
       ~clients[c].isConnected =>
         /\ \A k \in (Len(clients[c].wire) + 1)..Len(clients'[c].wire) :
              clients'[c].wire[k].method \in {"initialize", NotificationInitialized}
         /\ (AppListTools(c) \/ AppCallTool(c)) =>
              /\ clients'[c].thrown = ConnectionClosed
              /\ clients'[c].wire = clients[c].wire
              /\ clients'[c].pendingRequests = clients[c].pendingRequests]_vars

\* C26 witness: a call on a streamable-HTTP Client that had sent a request
\* and is not connected any more threw ConnectionClosed.
CallOnDisconnectedClientThrew ==
  \E c \in Clients :
    /\ clients[c].thrown = ConnectionClosed /\ ~clients[c].isConnected
    /\ clients[c].transport = "streamableHttp"
    /\ \E k \in 1..Len(clients[c].wire) : clients[c].wire[k].method = "tools/call"

\* C27: the pending table of a Client is empty whenever the Client is not
\* connected and no handshake is in flight.
PendingEmptyWhenDisconnected ==
  \A c \in Clients :
    (/\ ~clients[c].isConnected
     /\ clients[c].initializePromise = 0
     /\ \A h \in Handshakes : clients[c].hs[h].promise.st # "pending")
      => clients[c].pendingRequests = {}

\* C28: when a start fails, nothing is inserted into the registry and the
\* Client the start constructed is torn down: its child is not running and
\* its pending table is empty.
FailedStartLeavesNothingBehind ==
  \A r \in Reqs :
    (reqs[r].kind = "start" /\ reqs[r].status = 500 /\ reqs[r].started # 0) =>
      LET c == reqs[r].started IN
      /\ \A n \in DOMAIN mcpClients : mcpClients[n] # c
      /\ clients[c].proc # "running"
      /\ clients[c].pendingRequests = {}

\* C29: close() on a Client that is not connected changes nothing; on a
\* connected Client it sends a shutdown request, and on stdio it does not
\* kill the child in the same turn (the kill comes after a grace delay).
CloseSendsShutdownAndKillsLater ==
  [][\A c \in Clients :
       AppClose(c) =>
         IF ~clients[c].isConnected THEN clients'[c] = clients[c]
         ELSE /\ \E k \in (Len(clients[c].wire) + 1)..Len(clients'[c].wire) :
                   clients'[c].wire[k].method = "shutdown"
              /\ clients[c].transport = "stdio" =>
                   clients'[c].killed = clients[c].killed]_vars

RECURSIVE chainEnd(_)
\* The node C30 names: the first node on the chain of single-key descents
\* from v that has a content field, or the last node of the chain.  A node
\* with exactly one key that is an object or an array is followed by the
\* value of that key; any other node ends the chain.
chainEnd(v) ==
  IF hasContent(v) THEN v
  ELSE IF v.t \in {"object", "array"} /\ keyCount(v) = 1 THEN chainEnd(v.kids[1])
  ELSE v

\* C30: unwrapping a tools/call result returns the first node on the chain of
\* single-key descents that has a content field, or the last node of that
\* chain when none has one.
UnwrapReturnsEndOfChain ==
  Len(unwrapped) >= 1 => unwrapped[1] = Returns(chainEnd(result))

\* C31: the unwrapping descent terminates and returns a node for every JSON
\* value a server can send as a tools/call result: it never recurses without
\* bound and never throws.
UnwrapAlwaysReturns ==
  \A i \in 1..Len(unwrapped) : unwrapped[i].st = "value"

RECURSIVE retryOf(_, _, _)
\* TRUE when request i is request j or a retry (of a retry ...) of it.
retryOf(s, i, j) ==
  IF i = j THEN TRUE
  ELSE IF i = 0 \/ s.parent[i] = 0 THEN FALSE
  ELSE retryOf(s, s.parent[i], j)

FramesGoOutInSubmissionOrder ==
  [][\A c \in Clients :
       LET w == clients[c].wire
           v == clients'[c].wire IN
       /\ Len(w) <= Len(v) /\ \A k \in 1..Len(w) : v[k] = w[k]
       /\ \A m \in {"tools/list", "tools/call"} :
            (/\ clients[c].transport \in Transports
             /\ ~sendRequestThrows(clients[c], m)
             /\ clients' = [clients EXCEPT ![c] = request(clients[c], m)])
              => v = Append(w, Frame(clients[c].requestId + 1, m))]_vars

\* C33 witness: two calls submitted one after the other are both waiting, and
\* their frames are on the wire in the order of submission.
TwoSubmittedRequestsOnWire ==
  \E c \in Clients : \E k, l \in 1..Len(clients[c].wire) :
    LET a == clients[c].wire[k]
        b == clients[c].wire[l] IN
    /\ k < l /\ a.id < b.id
    /\ a.method = "tools/call" /\ b.method = "tools/list"
    /\ clients[c].parent[a.id] = 0 /\ clients[c].parent[b.id] = 0
    /\ clients[c].waiter[a.id].st = "pending" /\ clients[c].waiter[b.id].st = "pending"

\* C34: an inbound message without an id, or with an id that is not in the
\* pending table, is dropped: whichever way it arrives (a stdout line, an SSE
\* message, the JSON body or the event stream of a POST), the pending table,
\* the connection state and the capabilities stay as they were and no waiter
\* is settled by it (an event stream still resolves the waiter of its own POST
\* when it ends, as an empty stream does).
Dropped(s, msg) == msg.kind = "notification" \/ msg.id \notin PendingIds(s)

UnmatchedMessageIsDropped ==
  [][\A c \in Clients :
       LET s == clients[c]
           t == clients'[c] IN
       (s.transport \in Transports /\ t # s) =>
         /\ (s.proc = "running" \/ s.eventSource) =>
              \A msg \in ServerMessages(s) :
                Dropped(s, msg) => t # handleMessage(s, msg)
         /\ \A id \in Ids :
              (s.transport = "streamableHttp" /\ s.exec[id] = "fetch"
                 /\ t.exec[id] = "done") =>
                \A msg \in ServerMessages(s) :
                  Dropped(s, msg) =>
                    /\ t = httpResponse(s, id, 200, "json", <<msg>>)
                         => /\ t.pendingRequests = s.pendingRequests
                            /\ t.isConnected = s.isConnected
                            /\ t.capabilities = s.capabilities
                            /\ t.initializePromise = s.initializePromise
                            /\ t.waiter = s.waiter
                    /\ t = httpResponse(s, id, 200, "event-stream", <<msg>>)
                         => t = httpResponse(s, id, 200, "event-stream", << >>)]_vars

\* C34 witness: the only request a connected streamable-HTTP Client ever made
\* got its POST answered, and it is still pending with its waiter unsettled:
\* the body held a notification or a response for an id nobody waits for.
PostAnsweredByUnmatchedMessage ==
  \E c \in Clients : \E id \in Ids :
    /\ clients[c].transport = "streamableHttp"
    /\ clients[c].isConnected
    /\ clients[c].exec[id] = "done"
    /\ id \in PendingIds(clients[c])
    /\ clients[c].waiter[id].st = "pending"
    /\ \A j \in Ids \ {id} : clients[c].waiter[j] = NoPromise

\* The messages among the lines the child wrote, in order.
WrittenMessages ==
  LET ms == SelectSeq(stdout.written, isMessage)
  IN [k \in 1..Len(ms) |-> ms[k][2]]

\* C35: an unparseable line on stdout is dropped and nothing else: once the
\* stream is read to its end, every valid line written before or after it
\* has been dispatched, once and in order, and only the unparseable lines
\* were logged as parse failures.
UnparseableLineOnlyDropped ==
  (/\ stdout.reader # "none" /\ stdout.pipe = << >>
   /\ \E k \in 1..Len(stdout.written) : ~isMessage(stdout.written[k]))
    => /\ stdout.dispatched = WrittenMessages
       /\ stdout.errors = Len(stdout.written) - Len(WrittenMessages)

\* C38: stdio framing does not depend on chunking: however the lines of the
\* child are cut into 'data' events, every newline-terminated message that
\* was read is dispatched exactly once, in the order written.
FramingIndependentOfChunking ==
  (/\ stdout.reader # "none" /\ stdout.pipe = << >>
   /\ \A k \in 1..Len(stdout.written) : isMessage(stdout.written[k]))
    => stdout.dispatched = WrittenMessages

\* C36: after a successful handshake, on any transport, the negotiated
\* protocol version is the protocolVersion of the initialize response (the
\* Client's own constant when the response leaves it out) and the server
\* capabilities are the capabilities of that response.
HandshakeAdoptsServerVersion ==
  \A c \in Clients :
    clients[c].isConnected =>
      /\ clients[c].negotiatedProtocolVersion = versionOr(clients[c].peer)
      /\ clients[c].capabilities = clients[c].peer.capabilities

\* C37: every start, stop, reload-tools, list-tools and call-tool request is
\* answered: once received it eventually has its HTTP response, also when the
\* server never answers, exits while a request is pending, or does not exit
\* after the kill signal.
EveryRequestIsAnswered ==
  \A r \in Reqs :
    (reqs[r].kind \in {"start", "stop", "reload", "listTools", "callTool"})
      ~> (reqs[r].status # 0)

\* C39: no server whose name is in disabledServers has a Client in the
\* registry: disabling a running server stops it, and neither start nor
\* reload-tools nor the implicit reload of list-tools starts a disabled one.
DisabledServerNotRegistered ==
  \A name \in DOMAIN mcpClients : name \notin file.disabledServers

\* C40: a rejected POST /servers (400 for an invalid body, 409 for a name
\* that exists) leaves the settings document as it was: the existing
\* mcpServers entry is not overwritten.
RejectedPostLeavesSettings ==
  [][\A r \in Reqs :
       (reqs[r].pc = "new" /\ reqs'[r].kind = "add" /\ reqs'[r].status \in {400, 409})
         => file' = file]_vars

====
